---- MODULE Spec2Model ----
(***************************************************************************)
(* Quasi mesh scripts: scripts/analyze_mesh.py, scripts/analyze_bunny.py   *)
(* and scripts/convert_obj_to_json.py, run one after another from a shell  *)
(* over a small file system.                                               *)
(*                                                                         *)
(* Numbers.  Coordinates are JSON numbers; the model uses integers, and    *)
(* the true division (a + b) / 2 yields the rational [num, den] in lowest  *)
(* terms.  Non-finite literals (NaN, Infinity) are not JSON numbers and    *)
(* are outside the modelled inputs.                                        *)
(* Text.  A line of an OBJ file is a sequence of one-character strings.    *)
(***************************************************************************)
EXTENDS Integers, Sequences, FiniteSets, TLC

(***************************************************************************)
(* Bounds of the model                                                     *)
(***************************************************************************)
MaxVerts == 2       \* whole vertices in a compact 'vertices' array
MaxTriangles == 2   \* records in a legacy 'triangles' array
MaxBody == 3        \* geometry lines in an OBJ file, after its header part

(***************************************************************************)
(* Program constants                                                       *)
(***************************************************************************)
HeaderLines == 10   \* lines[:10]
ArgCount == 2       \* len(sys.argv) != 2

ObjPath == "bunny.obj"
JsonPath == "data/models/bunny.json"
OtherPath == "missing.json"
Paths == {ObjPath, JsonPath, OtherPath}

(***************************************************************************)
(* Python built-ins used by the scripts                                    *)
(***************************************************************************)
Range(s) == {s[i] : i \in 1..Len(s)}

\* variant: only the two ends of the sequence are compared
PyMinOfEnds(s) == IF s[Len(s)] < s[1] THEN s[Len(s)] ELSE s[1]

\* min(generator): the first element is kept unless a later one is strictly less
RECURSIVE PyMin(_)
PyMin(s) ==
    IF Len(s) = 1 THEN s[1]
    ELSE LET m == PyMin(SubSeq(s, 1, Len(s) - 1))
         IN IF s[Len(s)] < m THEN s[Len(s)] ELSE m

\* max(generator): the first element is kept unless a later one is strictly greater
RECURSIVE PyMax(_)
PyMax(s) ==
    IF Len(s) = 1 THEN s[1]
    ELSE LET m == PyMax(SubSeq(s, 1, Len(s) - 1))
         IN IF s[Len(s)] > m THEN s[Len(s)] ELSE m

\* a / 2 (true division), as a rational in lowest terms
Div2(a) == IF a % 2 = 0 THEN [num |-> a \div 2, den |-> 1] ELSE [num |-> a, den |-> 2]

IsSpace(c) == c \in {" ", "\n", "\t"}

\* str.startswith
StartsWith(s, p) == Len(s) >= Len(p) /\ SubSeq(s, 1, Len(p)) = p

\* str.strip()
RECURSIVE LStrip(_)
LStrip(s) == IF s # <<>> /\ IsSpace(s[1]) THEN LStrip(Tail(s)) ELSE s
RECURSIVE RStrip(_)
RStrip(s) == IF s # <<>> /\ IsSpace(s[Len(s)]) THEN RStrip(SubSeq(s, 1, Len(s) - 1)) ELSE s
Strip(s) == RStrip(LStrip(s))

\* str.split(): the maximal runs of non-space characters
RECURSIVE SplitWs(_, _)
SplitWs(s, cur) ==
    IF s = <<>> THEN (IF cur = <<>> THEN <<>> ELSE <<cur>>)
    ELSE IF IsSpace(s[1])
         THEN (IF cur = <<>> THEN <<>> ELSE <<cur>>) \o SplitWs(Tail(s), <<>>)
         ELSE SplitWs(Tail(s), Append(cur, s[1]))
Split(s) == SplitWs(s, <<>>)

\* str.split(sep): the fields between the occurrences of sep, empty fields kept
RECURSIVE SplitSep(_, _, _)
SplitSep(s, sep, cur) ==
    IF s = <<>> THEN <<cur>>
    ELSE IF s[1] = sep THEN <<cur>> \o SplitSep(Tail(s), sep, <<>>)
         ELSE SplitSep(Tail(s), sep, Append(cur, s[1]))
SplitOn(s, sep) == SplitSep(s, sep, <<>>)

Digits == {"0", "1", "2", "3", "4", "5", "6", "7", "8", "9"}
DigitVal(c) == CHOOSE d \in 0..9 : <<"0", "1", "2", "3", "4", "5", "6", "7", "8", "9">>[d + 1] = c

RECURSIVE DigitsVal(_)
DigitsVal(s) == IF s = <<>> THEN 0 ELSE 10 * DigitsVal(SubSeq(s, 1, Len(s) - 1)) + DigitVal(s[Len(s)])

\* the literals int() accepts here: surrounding blanks, an optional sign, decimal digits
Unsigned(t) == IF t # <<>> /\ t[1] \in {"+", "-"} THEN Tail(t) ELSE t
IsIntLiteral(s) ==
    LET t == Strip(s)
    IN Unsigned(t) # <<>> /\ \A i \in 1..Len(Unsigned(t)) : Unsigned(t)[i] \in Digits

\* int(s) for an accepted literal
ParseInt(s) ==
    LET t == Strip(s)
    IN IF t[1] = "-" THEN 0 - DigitsVal(Unsigned(t)) ELSE DigitsVal(Unsigned(t))

\* float(s): the OBJ files of the model write coordinates without fraction or exponent
IsFloatLiteral(s) == IsIntLiteral(s)
ParseFloat(s) == ParseInt(s)

(***************************************************************************)
(* analyze_mesh.py: the two readers and the statistics                     *)
(***************************************************************************)
\* 'k in data' for a parsed JSON object
HasKey(data, k) == k \in DOMAIN data

\* lines 46-48: group the flat array into (x, y, z) tuples
CompactVertexList(vertices) ==
    [k \in 1..(Len(vertices) \div 3) |->
        <<vertices[3 * k - 2], vertices[3 * k - 1], vertices[3 * k]>>]

\* triangle[vertex_key] and v[0], v[1], v[2] all exist
TriangleReadable(triangle) ==
    \A key \in {"v0", "v1", "v2"} : key \in DOMAIN triangle /\ Len(triangle[key]) >= 3

\* variant: v2 appended before v1
RECURSIVE LegacyVertexListSwapped(_)
LegacyVertexListSwapped(triangles) ==
    IF triangles = <<>> THEN <<>>
    ELSE LET triangle == triangles[Len(triangles)]
             tuple(v) == <<v[1], v[2], v[3]>>
         IN LegacyVertexListSwapped(SubSeq(triangles, 1, Len(triangles) - 1))
              \o <<tuple(triangle["v0"]), tuple(triangle["v2"]), tuple(triangle["v1"])>>

\* lines 61-65: for each triangle, v0, v1, v2 appended in turn
RECURSIVE LegacyVertexList(_)
LegacyVertexList(triangles) ==
    IF triangles = <<>> THEN <<>>
    ELSE LET triangle == triangles[Len(triangles)]
             tuple(v) == <<v[1], v[2], v[3]>>
         IN LegacyVertexList(SubSeq(triangles, 1, Len(triangles) - 1))
              \o <<tuple(triangle["v0"]), tuple(triangle["v1"]), tuple(triangle["v2"])>>

Axis(vertex_list, k) == [i \in 1..Len(vertex_list) |-> vertex_list[i][k]]

\* max(size_x, size_y, size_z)
Max3(a, b, c) == PyMax(<<a, b, c>>)

\* variant: center_y taken from the x extent
MeshStatsCenterSlip(vertex_list) ==
    LET min_x == PyMin(Axis(vertex_list, 1))
        max_x == PyMax(Axis(vertex_list, 1))
        min_y == PyMin(Axis(vertex_list, 2))
        max_y == PyMax(Axis(vertex_list, 2))
        min_z == PyMin(Axis(vertex_list, 3))
        max_z == PyMax(Axis(vertex_list, 3))
    IN [min_x |-> min_x, max_x |-> max_x,
        min_y |-> min_y, max_y |-> max_y,
        min_z |-> min_z, max_z |-> max_z,
        center_x |-> Div2(min_x + max_x),
        center_y |-> Div2(min_x + max_x),
        center_z |-> Div2(min_z + max_z),
        size_x |-> max_x - min_x,
        size_y |-> max_y - min_y,
        size_z |-> max_z - min_z,
        max_dim |-> Max3(max_x - min_x, max_y - min_y, max_z - min_z)]

\* lines 75-95 of analyze_mesh.py
MeshStats(vertex_list) ==
    LET min_x == PyMin(Axis(vertex_list, 1))
        max_x == PyMax(Axis(vertex_list, 1))
        min_y == PyMin(Axis(vertex_list, 2))
        max_y == PyMax(Axis(vertex_list, 2))
        min_z == PyMin(Axis(vertex_list, 3))
        max_z == PyMax(Axis(vertex_list, 3))
    IN [min_x |-> min_x, max_x |-> max_x,
        min_y |-> min_y, max_y |-> max_y,
        min_z |-> min_z, max_z |-> max_z,
        center_x |-> Div2(min_x + max_x),
        center_y |-> Div2(min_y + max_y),
        center_z |-> Div2(min_z + max_z),
        size_x |-> max_x - min_x,
        size_y |-> max_y - min_y,
        size_z |-> max_z - min_z,
        max_dim |-> Max3(max_x - min_x, max_y - min_y, max_z - min_z)]

\* os.path.splitext(os.path.basename(filename))[0] on the paths of the model
Stem(filename) == IF filename = OtherPath THEN "missing" ELSE "bunny"

(***************************************************************************)
(* analyze_bunny.py                                                        *)
(***************************************************************************)
\* lines 12-14: the loop reads vertices[i+1], vertices[i+2] for i = 0, 3, 6, ...
BunnyLoopRaises(vertices) == Len(vertices) % 3 # 0

\* variant: the third component read from vertices[i+1]
BunnyVertexListSlip(vertices) ==
    [k \in 1..(Len(vertices) \div 3) |->
        <<vertices[3 * (k - 1) + 1], vertices[3 * (k - 1) + 2], vertices[3 * (k - 1) + 2]>>]

BunnyVertexList(vertices) ==
    [k \in 1..(Len(vertices) \div 3) |->
        <<vertices[3 * (k - 1) + 1], vertices[3 * (k - 1) + 2], vertices[3 * (k - 1) + 3]>>]

\* lines 17-37 of analyze_bunny.py
BunnyStats(vertex_list) ==
    LET xs == Axis(vertex_list, 1)
        ys == Axis(vertex_list, 2)
        zs == Axis(vertex_list, 3)
    IN [min_x |-> PyMin(xs), max_x |-> PyMax(xs),
        min_y |-> PyMin(ys), max_y |-> PyMax(ys),
        min_z |-> PyMin(zs), max_z |-> PyMax(zs),
        center_x |-> Div2(PyMin(xs) + PyMax(xs)),
        center_y |-> Div2(PyMin(ys) + PyMax(ys)),
        center_z |-> Div2(PyMin(zs) + PyMax(zs)),
        size_x |-> PyMax(xs) - PyMin(xs),
        size_y |-> PyMax(ys) - PyMin(ys),
        size_z |-> PyMax(zs) - PyMin(zs),
        max_dim |-> PyMax(<<PyMax(xs) - PyMin(xs), PyMax(ys) - PyMin(ys), PyMax(zs) - PyMin(zs)>>)]

(***************************************************************************)
(* convert_obj_to_json.py                                                  *)
(***************************************************************************)
VertexCountPrefix == <<"#", " ", "v", "e", "r", "t", "e", "x", " ", "c", "o", "u", "n", "t", " ", "=">>
FaceCountPrefix == <<"#", " ", "f", "a", "c", "e", " ", "c", "o", "u", "n", "t", " ", "=">>
VPrefix == <<"v", " ">>
FPrefix == <<"f", " ">>

\* int(line.split('=')[1].strip()) raises ValueError unless the field is an integer literal
HeaderValueOk(line) == IsIntLiteral(Strip(SplitOn(line, "=")[2]))
HeaderValue(line) == ParseInt(Strip(SplitOn(line, "=")[2]))

\* lines 15-19: a left-to-right pass over lines[:10]; a later header overrides an earlier one
RECURSIVE ParseHeader(_)
ParseHeader(head) ==
    IF head = <<>> THEN [ok |-> TRUE, vertex_count |-> 0, face_count |-> 0]
    ELSE LET before == ParseHeader(SubSeq(head, 1, Len(head) - 1))
             line == head[Len(head)]
         IN IF ~before.ok THEN before
            ELSE IF StartsWith(line, VertexCountPrefix)
                 THEN (IF HeaderValueOk(line)
                       THEN [before EXCEPT !.vertex_count = HeaderValue(line)]
                       ELSE [before EXCEPT !.ok = FALSE])
            ELSE IF StartsWith(line, FaceCountPrefix)
                 THEN (IF HeaderValueOk(line)
                       THEN [before EXCEPT !.face_count = HeaderValue(line)]
                       ELSE [before EXCEPT !.ok = FALSE])
            ELSE before

\* variant: the whole file scanned for headers
AllLines(lines) == lines

\* lines[:10]
FirstLines(lines) == SubSeq(lines, 1, IF Len(lines) < HeaderLines THEN Len(lines) ELSE HeaderLines)

\* parts[1], parts[2], parts[3] are read and converted in turn: the first one that is
\* missing raises IndexError, the first one that does not convert raises ValueError
FirstFailure(parts, bad) ==
    IF bad = {} THEN ""
    ELSE LET i == CHOOSE i \in bad : \A j \in bad : i <= j
         IN IF i > Len(parts) THEN "IndexError" ELSE "ValueError"
FloatPartsError(line) ==
    LET parts == Split(Strip(line))
    IN FirstFailure(parts, {i \in 2..4 : i > Len(parts) \/ ~IsFloatLiteral(parts[i])})
IntPartsError(line) ==
    LET parts == Split(Strip(line))
    IN FirstFailure(parts, {i \in 2..4 : i > Len(parts) \/ ~IsIntLiteral(parts[i])})

\* variant: each vertex put in front of the earlier ones
RECURSIVE ParseVerticesPrepend(_)
ParseVerticesPrepend(lines) ==
    IF lines = <<>> THEN [error |-> "", vertices |-> <<>>]
    ELSE LET before == ParseVerticesPrepend(SubSeq(lines, 1, Len(lines) - 1))
             line == lines[Len(lines)]
             parts == Split(Strip(line))
         IN IF before.error # "" \/ ~StartsWith(line, VPrefix) THEN before
            ELSE IF FloatPartsError(line) # ""
                 THEN [before EXCEPT !.error = FloatPartsError(line)]
            ELSE [before EXCEPT !.vertices =
                    <<ParseFloat(parts[2]), ParseFloat(parts[3]), ParseFloat(parts[4])>> \o @]

\* lines 22-26: vertices.extend([x, y, z]) for every line starting with 'v '
RECURSIVE ParseVertices(_)
ParseVertices(lines) ==
    IF lines = <<>> THEN [error |-> "", vertices |-> <<>>]
    ELSE LET before == ParseVertices(SubSeq(lines, 1, Len(lines) - 1))
             line == lines[Len(lines)]
             parts == Split(Strip(line))
         IN IF before.error # "" \/ ~StartsWith(line, VPrefix) THEN before
            ELSE IF FloatPartsError(line) # ""
                 THEN [before EXCEPT !.error = FloatPartsError(line)]
            ELSE [before EXCEPT !.vertices =
                    @ \o <<ParseFloat(parts[2]), ParseFloat(parts[3]), ParseFloat(parts[4])>>]

\* lines 29-34: indices.extend([v1, v2, v3]) for every line starting with 'f ', 1-based to 0-based
RECURSIVE ParseFaces(_)
ParseFaces(lines) ==
    IF lines = <<>> THEN [error |-> "", indices |-> <<>>]
    ELSE LET before == ParseFaces(SubSeq(lines, 1, Len(lines) - 1))
             line == lines[Len(lines)]
             parts == Split(Strip(line))
         IN IF before.error # "" \/ ~StartsWith(line, FPrefix) THEN before
            ELSE IF IntPartsError(line) # ""
                 THEN [before EXCEPT !.error = IntPartsError(line)]
            ELSE [before EXCEPT !.indices =
                    @ \o <<ParseInt(parts[2]) - 1, ParseInt(parts[3]) - 1, ParseInt(parts[4]) - 1>>]

\* lines 37-44
JsonData(vertex_count, face_count, vertices, indices) ==
    [name |-> "Stanford Bunny (OBJ Converted)",
     description |-> <<"Stanford bunny model converted from OBJ format - ",
                       vertex_count, " vertices, ", face_count, " faces">>,
     vertex_count |-> vertex_count,
     face_count |-> face_count,
     vertices |-> vertices,
     indices |-> indices]

(***************************************************************************)
(* Input files                                                             *)
(***************************************************************************)
SeqsUpTo(S, n) == UNION {[1..k -> S] : k \in 0..n}

RECURSIVE Flatten(_)
Flatten(ss) == IF ss = <<>> THEN <<>> ELSE Head(ss) \o Flatten(Tail(ss))

Absent == [kind |-> "absent"]
JsonFile(value) == [kind |-> "json", value |-> value]
TextFile(lines) == [kind |-> "text", lines |-> lines]

VertexPool == {<<0, 0, 0>>, <<1, 0, 0>>, <<0, 1, 0>>, <<-1, 2, 1>>, <<2, -2, 3>>}
\* whole vertices, then zero, one or two stray numbers
FlatArrays ==
    {Flatten(vs) \o tail : vs \in SeqsUpTo(VertexPool, MaxVerts), tail \in {<<>>, <<5>>, <<5, 5>>}}
IndexArrays == {<<>>, <<0, 1, 0>>, <<1, 0, 1, 0, 0, 1>>, <<0, 1>>}

Tri(a, b, c) == [v0 |-> a, v1 |-> b, v2 |-> c]
TrianglePool ==
    {Tri(<<0, 0, 0>>, <<1, 0, 0>>, <<0, 1, 0>>),
     Tri(<<0, 1, 0>>, <<0, 0, 0>>, <<1, 0, 0>>),
     Tri(<<-1, 2, 1>>, <<-1, 2, 1>>, <<2, -1, 3>>),
     Tri(<<3, 3, -2>>, <<0, 0, 0>>, <<1, 4, 1>>)}
TriangleLists == SeqsUpTo(TrianglePool, MaxTriangles)
BrokenTriangle == [v0 |-> <<0, 0, 0>>, v1 |-> <<1, 0, 0>>]

SomeFlat == <<0, 0, 0, 1, 0, 0, 0, 1, 0>>
SomeTriangles == <<Tri(<<0, 0, 0>>, <<2, 0, 0>>, <<0, 2, 0>>)>>

JsonObjects ==
    {("vertices" :> v @@ "indices" :> i) : v \in FlatArrays, i \in IndexArrays}
    \cup {("triangles" :> t) : t \in TriangleLists}
    \cup {("vertices" :> v @@ "indices" :> <<0, 1, 0>> @@ "triangles" :> SomeTriangles) :
             v \in {<<>>, SomeFlat, <<1, 2>>}}
    \cup {("vertices" :> SomeFlat @@ "triangles" :> t) : t \in {<<>>, SomeTriangles}}
    \cup {("indices" :> <<0, 1, 2>> @@ "triangles" :> SomeTriangles),
          ("triangles" :> <<BrokenTriangle>>),
          ("vertices" :> SomeFlat), ("indices" :> <<0, 1, 2>>), ("name" :> "cube"),
          ("name" :> "cube" @@ "vertices" :> SomeFlat @@ "indices" :> <<0, 1, 2>>),
          ("scale" :> 2 @@ "vertices" :> SomeFlat @@ "indices" :> <<0, 1, 2>>),
          ("center" :> <<0, 0, 0>> @@ "vertices" :> SomeFlat @@ "indices" :> <<0, 1, 2>>),
          ("center" :> <<0, 0>> @@ "scale" :> 2 @@ "triangles" :> SomeTriangles)}

Garbage == TextFile(<<<<"{", " ", "n", "o", "t", " ", "j", "s", "o", "n", "\n">>>>)

LineVA == <<"v", " ", "0", " ", "1", " ", "0", "\n">>
LineVB == <<"v", " ", "-", "1", " ", " ", "2", " ", "1", "0", " ", "\n">>
LineFA == <<"f", " ", "1", " ", "2", " ", "3", "\n">>
LineFB == <<"f", " ", "2", " ", "1", " ", "1", "2", "\n">>
LineVN == <<"v", "n", " ", "0", " ", "0", " ", "1", "\n">>
LineComment == <<"#", " ", "b", "u", "n", "n", "y", "\n">>
LineVertexCount == <<"#", " ", "v", "e", "r", "t", "e", "x", " ", "c", "o", "u", "n", "t", " ", "=", " ", "2", "\n">>
LineFaceCount == <<"#", " ", "f", "a", "c", "e", " ", "c", "o", "u", "n", "t", " ", "=", " ", "1", "\n">>
LineShortV == <<"v", " ", "1", " ", "2", "\n">>
LineSlashF == <<"f", " ", "1", "/", "1", " ", "2", "/", "2", " ", "3", "/", "3", "\n">>
LineBadCount == <<"#", " ", "v", "e", "r", "t", "e", "x", " ", "c", "o", "u", "n", "t", " ", "=", " ", "t", "w", "o", "\n">>

Pad(n) == [i \in 1..n |-> LineComment]
\* a header line at line 1, at line 10 (the last one scanned) or at line 11
HeaderParts ==
    {<<>>, <<LineVertexCount, LineFaceCount>>, <<LineFaceCount, LineVertexCount, LineVertexCount>>}
    \cup {Pad(n) \o <<h>> : n \in {0, HeaderLines - 1, HeaderLines},
                            h \in {LineVertexCount, LineFaceCount}}
BodyParts == SeqsUpTo({LineVA, LineVB, LineFA, LineFB, LineVN}, MaxBody)
ObjTexts ==
    {h \o b : h \in HeaderParts, b \in BodyParts}
    \cup {<<LineVA, LineShortV, LineFA>>, <<LineVA, LineSlashF>>, <<LineBadCount, LineVA>>}

(***************************************************************************)
(* State                                                                   *)
(***************************************************************************)
VARIABLES
    fs,             \* path -> file content
    shell,          \* "prompt", or the command in the foreground
    script,         \* the commands still to be run, in order
    m_pc, m_argv, m_data, m_name, m_vertex_list, m_stats, m_out, m_error, m_ret, m_exit,
    b_pc, b_vertices, b_vertex_list, b_stats, b_out, b_error, b_exit,
    c_pc, c_lines, c_vertex_count, c_face_count, c_vertices, c_indices, c_json_data,
    c_out, c_error, c_exit

mvars == <<m_pc, m_argv, m_data, m_name, m_vertex_list, m_stats, m_out, m_error, m_ret, m_exit>>
bvars == <<b_pc, b_vertices, b_vertex_list, b_stats, b_out, b_error, b_exit>>
cvars == <<c_pc, c_lines, c_vertex_count, c_face_count, c_vertices, c_indices, c_json_data,
           c_out, c_error, c_exit>>
vars == <<fs, shell, script, mvars, bvars, cvars>>

\* The commands in the order the project uses them: generate the model, then inspect it
Session == <<"convert_obj_to_json", "analyze_bunny", "analyze_mesh">>

\* the shell starts the next command of the script when the previous one has ended
Start(command) ==
    /\ shell = "prompt"
    /\ script # <<>> /\ Head(script) = command
    /\ script' = Tail(script)

\* Either the OBJ source is there and the JSON model is still to be generated,
\* or a JSON model (of any shape) is there.
Init ==
    /\ \/ \E text \in ObjTexts :
            fs = [p \in Paths |-> IF p = ObjPath THEN TextFile(text) ELSE Absent]
       \/ \E content \in {JsonFile(o) : o \in JsonObjects} \cup {Garbage} :
            fs = [p \in Paths |-> IF p = JsonPath THEN content ELSE Absent]
    /\ shell = "prompt"
    /\ script = Session
    /\ m_pc = "idle" /\ m_argv = <<>> /\ m_data = <<>> /\ m_name = "" /\ m_vertex_list = <<>>
    /\ m_stats = <<>> /\ m_out = <<>> /\ m_error = "" /\ m_ret = "None" /\ m_exit = -1
    /\ b_pc = "idle" /\ b_vertices = <<>> /\ b_vertex_list = <<>> /\ b_stats = <<>>
    /\ b_out = <<>> /\ b_error = "" /\ b_exit = -1
    /\ c_pc = "idle" /\ c_lines = <<>> /\ c_vertex_count = 0 /\ c_face_count = 0
    /\ c_vertices = <<>> /\ c_indices = <<>> /\ c_json_data = <<>>
    /\ c_out = <<>> /\ c_error = "" /\ c_exit = -1

(***************************************************************************)
(* analyze_mesh.py                                                         *)
(***************************************************************************)
\* 'return False' after printing an error message
MeshFail(error, prints) ==
    /\ m_out' = m_out \o prints
    /\ m_error' = error
    /\ m_ret' = "False"
    /\ m_pc' = "returned"

\* an uncaught exception leaves analyze_mesh without a return value
MeshRaise(exception) ==
    /\ m_error' = exception
    /\ m_ret' = "raised"
    /\ m_pc' = "returned"

\* lines 110-115: the argument check of __main__
MeshMain(args) ==
    /\ Start("analyze_mesh") /\ m_pc = "idle"
    /\ LET sys_argv == <<"analyze_mesh.py">> \o args
       IN IF Len(sys_argv) # ArgCount
          THEN /\ m_out' = <<"usage">>
               /\ m_error' = "Usage"
               /\ m_exit' = 1
               /\ m_pc' = "exited"
               /\ m_argv' = sys_argv
               /\ UNCHANGED shell
          ELSE /\ m_argv' = sys_argv
               /\ m_pc' = "load"
               /\ shell' = "analyze_mesh"
               /\ UNCHANGED <<m_out, m_error, m_exit>>
    /\ UNCHANGED <<fs, m_data, m_name, m_vertex_list, m_stats, m_ret, bvars, cvars>>

\* lines 8-22: open, json.load, the two header lines
MeshLoad ==
    /\ m_pc = "load"
    /\ LET filename == m_argv[2]
           file == fs[filename]
       IN IF file.kind = "absent"
          THEN MeshFail("FileNotFound", <<"Error: File not found">>) /\ UNCHANGED <<m_data, m_name>>
          ELSE IF file.kind # "json"
          THEN MeshFail("InvalidJson", <<"Error: Invalid JSON">>) /\ UNCHANGED <<m_data, m_name>>
          ELSE /\ m_data' = file.value
               /\ m_name' = IF HasKey(file.value, "name") THEN file.value["name"] ELSE Stem(filename)
               /\ m_out' = m_out \o <<"=== Mesh Analysis", "File">>
               /\ m_pc' = "dispatch"
               /\ UNCHANGED <<m_error, m_ret>>
    /\ UNCHANGED <<fs, script, shell, m_argv, m_vertex_list, m_stats, m_exit, bvars, cvars>>

\* line 25
IsCompact(data) == HasKey(data, "vertices") /\ HasKey(data, "indices")
\* variant: the 'triangles' test made without regard to line 25
IsLegacyAnyway(data) == HasKey(data, "triangles")

\* line 50, reached when line 25 is false
IsLegacy(data) == ~IsCompact(data) /\ HasKey(data, "triangles")

\* variant: only a remainder of 1 is rejected
NotDivisibleRemainderOne(buffer) == Len(buffer) % 3 = 1

\* line 30 and line 34: a buffer whose length is not a multiple of 3
NotDivisible(buffer) == Len(buffer) % 3 # 0

\* lines 25-48: the compact reader
MeshCompact ==
    /\ m_pc = "dispatch" /\ IsCompact(m_data)
    /\ LET vertices == m_data["vertices"]
           indices == m_data["indices"]
       IN IF NotDivisible(vertices)
          THEN MeshFail("MalformedMesh", <<"Error: Vertex array length">>)
               /\ UNCHANGED m_vertex_list
          ELSE IF NotDivisible(indices)
          THEN MeshFail("MalformedMesh", <<"Error: Index array length">>)
               /\ UNCHANGED m_vertex_list
          ELSE /\ m_out' = m_out \o <<"Format: Compact", "Vertices", "Triangles">>
               /\ m_vertex_list' = CompactVertexList(vertices)
               /\ m_pc' = "check"
               /\ UNCHANGED <<m_error, m_ret>>
    /\ UNCHANGED <<fs, script, shell, m_argv, m_data, m_name, m_stats, m_exit, bvars, cvars>>

\* lines 50-65: the legacy reader
MeshLegacy ==
    /\ m_pc = "dispatch" /\ IsLegacy(m_data)
    /\ LET triangles == m_data["triangles"]
       IN /\ m_out' = m_out \o <<"Format: Legacy", "Triangles", "Vertex entries">>
          /\ IF \A i \in 1..Len(triangles) : TriangleReadable(triangles[i])
             THEN /\ m_vertex_list' = LegacyVertexList(triangles)
                  /\ m_pc' = "check"
                  /\ UNCHANGED <<m_error, m_ret>>
             ELSE MeshRaise("KeyError") /\ UNCHANGED m_vertex_list
    /\ UNCHANGED <<fs, script, shell, m_argv, m_data, m_name, m_stats, m_exit, bvars, cvars>>

\* lines 66-68
MeshUnrecognized ==
    /\ m_pc = "dispatch" /\ ~IsCompact(m_data) /\ ~IsLegacy(m_data)
    /\ MeshFail("UnrecognizedFormat", <<"Error: No vertex data found">>)
    /\ UNCHANGED <<fs, script, shell, m_argv, m_data, m_name, m_vertex_list, m_stats, m_exit, bvars, cvars>>

\* lines 70-72
MeshCheckEmpty ==
    /\ m_pc = "check"
    /\ IF m_vertex_list = <<>>
       THEN MeshFail("EmptyMesh", <<"Error: No vertices found in mesh">>)
       ELSE m_pc' = "bounds" /\ UNCHANGED <<m_out, m_error, m_ret>>
    /\ UNCHANGED <<fs, script, shell, m_argv, m_data, m_name, m_vertex_list, m_stats, m_exit, bvars, cvars>>

\* lines 74-95: the statistics and their five printed lines
MeshBounds ==
    /\ m_pc = "bounds"
    /\ m_stats' = MeshStats(m_vertex_list)
    /\ m_out' = m_out \o <<"Bounding Box", "X", "Y", "Z", "Center", "Max dimension">>
    /\ m_pc' = "meta"
    /\ UNCHANGED <<fs, script, shell, m_argv, m_data, m_name, m_vertex_list, m_error, m_ret, m_exit,
                   bvars, cvars>>

\* lines 97-104: the optional metadata, then 'return True'
MeshMeta ==
    /\ m_pc = "meta"
    /\ LET scale == IF HasKey(m_data, "scale") THEN <<"Default scale">> ELSE <<>>
       IN IF HasKey(m_data, "center") /\ Len(m_data["center"]) < 3
          THEN m_out' = m_out \o scale /\ MeshRaise("IndexError")
          ELSE /\ m_out' = m_out \o scale
                     \o (IF HasKey(m_data, "center") THEN <<"Default center">> ELSE <<>>)
               /\ m_ret' = "True"
               /\ m_pc' = "returned"
               /\ UNCHANGED m_error
    /\ UNCHANGED <<fs, script, shell, m_argv, m_data, m_name, m_vertex_list, m_stats, m_exit, bvars, cvars>>

\* lines 116-117: sys.exit(1) unless analyze_mesh returned True; falling off the end of
\* the script is status 0, and an uncaught exception ends the interpreter with status 1
\* variant: the sense of the test at line 116 inverted
ExitStatusInverted(ret) == IF ret = "True" THEN 1 ELSE 0

ExitStatus(ret) == IF ret = "True" THEN 0 ELSE 1

MeshExit ==
    /\ m_pc = "returned"
    /\ m_exit' = ExitStatus(m_ret)
    /\ m_pc' = "exited"
    /\ shell' = "prompt"
    /\ UNCHANGED <<fs, script, m_argv, m_data, m_name, m_vertex_list, m_stats, m_out, m_error, m_ret,
                   bvars, cvars>>

(***************************************************************************)
(* analyze_bunny.py                                                        *)
(***************************************************************************)
\* no exception is caught anywhere in analyze_bunny.py
BunnyRaise(exception) ==
    /\ b_error' = exception
    /\ b_pc' = "raised"

\* line 40
BunnyMain ==
    /\ Start("analyze_bunny") /\ b_pc = "idle"
    /\ shell' = "analyze_bunny"
    /\ b_pc' = "load"
    /\ UNCHANGED <<fs, b_vertices, b_vertex_list, b_stats, b_out, b_error, b_exit, mvars, cvars>>

\* lines 6-9
BunnyLoad ==
    /\ b_pc = "load"
    /\ LET file == fs[JsonPath]
       IN IF file.kind = "absent" THEN BunnyRaise("FileNotFoundError") /\ UNCHANGED b_vertices
          ELSE IF file.kind # "json" THEN BunnyRaise("JSONDecodeError") /\ UNCHANGED b_vertices
          ELSE IF ~HasKey(file.value, "vertices") THEN BunnyRaise("KeyError") /\ UNCHANGED b_vertices
          ELSE /\ b_vertices' = file.value["vertices"]
               /\ b_pc' = "group"
               /\ UNCHANGED b_error
    /\ UNCHANGED <<fs, script, shell, b_vertex_list, b_stats, b_out, b_exit, mvars, cvars>>

\* lines 11-14
BunnyGroup ==
    /\ b_pc = "group"
    /\ IF BunnyLoopRaises(b_vertices)
       THEN BunnyRaise("IndexError") /\ UNCHANGED b_vertex_list
       ELSE /\ b_vertex_list' = BunnyVertexList(b_vertices)
            /\ b_pc' = "bounds"
            /\ UNCHANGED b_error
    /\ UNCHANGED <<fs, script, shell, b_vertices, b_stats, b_out, b_exit, mvars, cvars>>

\* lines 16-37: min() of an empty generator raises ValueError
BunnyBounds ==
    /\ b_pc = "bounds"
    /\ IF b_vertex_list = <<>>
       THEN BunnyRaise("ValueError") /\ UNCHANGED <<b_stats, b_out>>
       ELSE /\ b_stats' = BunnyStats(b_vertex_list)
            /\ b_out' = b_out \o <<"Bunny bounds", "X", "Y", "Z", "Center", "Max dimension">>
            /\ b_pc' = "returned"
            /\ UNCHANGED b_error
    /\ UNCHANGED <<fs, script, shell, b_vertices, b_vertex_list, b_exit, mvars, cvars>>

\* the interpreter ends: status 0 at the end of the script, 1 after a traceback
BunnyExit ==
    /\ b_pc \in {"returned", "raised"}
    /\ b_exit' = IF b_pc = "returned" THEN 0 ELSE 1
    /\ b_pc' = "exited"
    /\ shell' = "prompt"
    /\ UNCHANGED <<fs, script, b_vertices, b_vertex_list, b_stats, b_out, b_error, mvars, cvars>>

(***************************************************************************)
(* convert_obj_to_json.py                                                  *)
(***************************************************************************)
ConvRaise(exception) ==
    /\ c_error' = exception
    /\ c_pc' = "raised"

\* line 67
ConvMain ==
    /\ Start("convert_obj_to_json") /\ c_pc = "idle"
    /\ shell' = "convert_obj_to_json"
    /\ c_pc' = "read"
    /\ UNCHANGED <<fs, c_lines, c_vertex_count, c_face_count, c_vertices, c_indices, c_json_data,
                   c_out, c_error, c_exit, mvars, bvars>>

\* lines 6-12
ConvRead ==
    /\ c_pc = "read"
    /\ IF fs[ObjPath].kind # "text"
       THEN ConvRaise("FileNotFoundError") /\ UNCHANGED c_lines
       ELSE /\ c_lines' = fs[ObjPath].lines
            /\ c_pc' = "header"
            /\ UNCHANGED c_error
    /\ UNCHANGED <<fs, script, shell, c_vertex_count, c_face_count, c_vertices, c_indices, c_json_data,
                   c_out, c_exit, mvars, bvars>>

\* lines 14-19
ConvHeader ==
    /\ c_pc = "header"
    /\ LET header == ParseHeader(FirstLines(c_lines))
       IN IF ~header.ok
          THEN ConvRaise("ValueError") /\ UNCHANGED <<c_vertex_count, c_face_count>>
          ELSE /\ c_vertex_count' = header.vertex_count
               /\ c_face_count' = header.face_count
               /\ c_pc' = "vertices"
               /\ UNCHANGED c_error
    /\ UNCHANGED <<fs, script, shell, c_lines, c_vertices, c_indices, c_json_data, c_out, c_exit,
                   mvars, bvars>>

\* lines 21-26
ConvVertices ==
    /\ c_pc = "vertices"
    /\ LET parsed == ParseVertices(c_lines)
       IN IF parsed.error # ""
          THEN ConvRaise(parsed.error) /\ UNCHANGED c_vertices
          ELSE /\ c_vertices' = parsed.vertices
               /\ c_pc' = "faces"
               /\ UNCHANGED c_error
    /\ UNCHANGED <<fs, script, shell, c_lines, c_vertex_count, c_face_count, c_indices, c_json_data,
                   c_out, c_exit, mvars, bvars>>

\* lines 28-34
ConvFaces ==
    /\ c_pc = "faces"
    /\ LET parsed == ParseFaces(c_lines)
       IN IF parsed.error # ""
          THEN ConvRaise(parsed.error) /\ UNCHANGED c_indices
          ELSE /\ c_indices' = parsed.indices
               /\ c_pc' = "verify"
               /\ UNCHANGED c_error
    /\ UNCHANGED <<fs, script, shell, c_lines, c_vertex_count, c_face_count, c_vertices, c_json_data,
                   c_out, c_exit, mvars, bvars>>

\* lines 55-58
Warnings(actual_vertices, vertex_count, actual_faces, face_count) ==
    (IF actual_vertices # vertex_count THEN <<"WARNING: Vertex count mismatch!">> ELSE <<>>)
    \o (IF actual_faces # face_count THEN <<"WARNING: Face count mismatch!">> ELSE <<>>)

\* lines 36-58: the record, the four report lines and the two warnings
ConvVerify ==
    /\ c_pc = "verify"
    /\ c_json_data' = JsonData(c_vertex_count, c_face_count, c_vertices, c_indices)
    /\ LET actual_vertices == Len(c_vertices) \div 3
           actual_faces == Len(c_indices) \div 3
       IN c_out' = c_out \o <<"Expected", "Actual", "Vertices array length", "Indices array length">>
                \o Warnings(actual_vertices, c_vertex_count, actual_faces, c_face_count)
    /\ c_pc' = "write"
    /\ UNCHANGED <<fs, script, shell, c_lines, c_vertex_count, c_face_count, c_vertices, c_indices,
                   c_error, c_exit, mvars, bvars>>

\* lines 60-64: json.dump; json.load of the file gives the record back
ConvWrite ==
    /\ c_pc = "write"
    /\ fs' = [fs EXCEPT ![JsonPath] = JsonFile(c_json_data)]
    /\ c_out' = Append(c_out, "Converted")
    /\ c_pc' = "returned"
    /\ UNCHANGED <<script, shell, c_lines, c_vertex_count, c_face_count, c_vertices, c_indices,
                   c_json_data, c_error, c_exit, mvars, bvars>>

\* the interpreter ends: status 0 at the end of the script, 1 after a traceback
ConvExit ==
    /\ c_pc \in {"returned", "raised"}
    /\ c_exit' = IF c_pc = "returned" THEN 0 ELSE 1
    /\ c_pc' = "exited"
    /\ shell' = "prompt"
    /\ UNCHANGED <<fs, script, c_lines, c_vertex_count, c_face_count, c_vertices, c_indices,
                   c_json_data, c_out, c_error, mvars, bvars>>

(***************************************************************************)
(* The shell session                                                       *)
(***************************************************************************)
ArgLists == {<<>>, <<JsonPath>>, <<OtherPath>>, <<ObjPath>>, <<JsonPath, OtherPath>>}

Next ==
    \/ \E args \in ArgLists : MeshMain(args)
    \/ MeshLoad
    \/ MeshCompact
    \/ MeshLegacy
    \/ MeshUnrecognized
    \/ MeshCheckEmpty
    \/ MeshBounds
    \/ MeshMeta
    \/ MeshExit
    \/ BunnyMain
    \/ BunnyLoad
    \/ BunnyGroup
    \/ BunnyBounds
    \/ BunnyExit
    \/ ConvMain
    \/ ConvRead
    \/ ConvHeader
    \/ ConvVertices
    \/ ConvFaces
    \/ ConvVerify
    \/ ConvWrite
    \/ ConvExit

Spec == Init /\ [][Next]_vars

(***************************************************************************)
(* Properties                                                              *)
(***************************************************************************)
\* analyze_mesh got a parsed JSON object and is past the format dispatch
MeshDispatched ==
    /\ m_pc \in {"check", "bounds", "meta", "returned", "exited"}
    /\ "File" \in Range(m_out)

MeshBothKeys == "vertices" \in DOMAIN m_data /\ "indices" \in DOMAIN m_data
MeshTrianglesKey == "triangles" \in DOMAIN m_data
ViaCompact == "Format: Compact" \in Range(m_out) \/ m_error = "MalformedMesh"
ViaLegacy == "Format: Legacy" \in Range(m_out)
NoBoundingBox == m_stats = <<>> /\ "Bounding Box" \notin Range(m_out)

\* C1: for every parsed JSON object the compact reader runs iff both 'vertices' and
\* 'indices' are present (whatever else is); otherwise the legacy reader runs iff
\* 'triangles' is present; otherwise analyze_mesh fails with the unrecognized-format
\* error, returns False and computes no bounding box.
C1_FormatDispatch ==
    MeshDispatched =>
        /\ MeshBothKeys <=> ViaCompact
        /\ MeshBothKeys => ~ViaLegacy
        /\ ~MeshBothKeys => (MeshTrianglesKey <=> ViaLegacy)
        /\ (~MeshBothKeys /\ ~MeshTrianglesKey) <=> m_error = "UnrecognizedFormat"
        /\ m_error = "UnrecognizedFormat" =>
              m_ret = "False" /\ m_vertex_list = <<>> /\ NoBoundingBox

\* all three keys present: the compact reader was used
C1_Witness ==
    /\ MeshDispatched /\ MeshBothKeys /\ MeshTrianglesKey
    /\ "Format: Compact" \in Range(m_out)
    /\ m_pc = "exited"

\* C2: on compact input, a 'vertices' or 'indices' length not divisible by 3 makes
\* analyze_mesh fail with the malformed-mesh error (return False) before any vertex
\* triple is built and before any statistic is computed or printed; bounds are
\* computed only when both lengths are divisible by 3.
C2_MalformedBeforeBounds ==
    (MeshDispatched /\ MeshBothKeys) =>
        LET bad == \/ Len(m_data["vertices"]) % 3 # 0
                   \/ Len(m_data["indices"]) % 3 # 0
        IN /\ bad => /\ m_error = "MalformedMesh" /\ m_ret = "False"
                     /\ m_pc \in {"returned", "exited"}
                     /\ m_vertex_list = <<>> /\ NoBoundingBox
           /\ m_error = "MalformedMesh" => bad
           /\ ~NoBoundingBox => ~bad

\* whole vertices, but an index buffer of a bad length
C2_Witness ==
    /\ MeshDispatched /\ MeshBothKeys
    /\ Len(m_data["vertices"]) = 6 /\ Len(m_data["indices"]) % 3 = 2
    /\ m_error = "MalformedMesh" /\ m_pc = "exited"

\* analyze_mesh, given vertices = [] (compact, with a well-formed index buffer) or
\* triangles = [] (legacy), reports EmptyMesh
MeshEmptyReported ==
    (/\ MeshDispatched /\ m_pc \in {"returned", "exited"}
     /\ \/ MeshBothKeys /\ m_data["vertices"] = <<>> /\ Len(m_data["indices"]) % 3 = 0
        \/ ~MeshBothKeys /\ MeshTrianglesKey /\ m_data["triangles"] = <<>>)
    => m_error = "EmptyMesh" /\ m_ret = "False" /\ NoBoundingBox

\* analyze_bunny, given a file with vertices = [], reports EmptyMesh and does not crash
BunnyEmptyReported ==
    (/\ fs[JsonPath].kind = "json"
     /\ "vertices" \in DOMAIN fs[JsonPath].value
     /\ fs[JsonPath].value["vertices"] = <<>>
     /\ b_pc \in {"returned", "raised", "exited"})
    => b_error = "EmptyMesh" /\ b_pc # "raised" /\ b_stats = <<>>

\* C3: every entry point that computes bounding-box statistics treats an empty vertex
\* sequence as a reported EmptyMesh error: min/max are never evaluated over the empty
\* sequence and no bounding box is printed.
C3_EmptyMeshEverywhere == MeshEmptyReported /\ BunnyEmptyReported

MeshErrors == {"FileNotFound", "InvalidJson", "MalformedMesh", "UnrecognizedFormat", "EmptyMesh"}

\* C4: with an argument count other than 1 the command prints usage and exits 1
\* without calling analyze_mesh; with one argument it exits 1 whenever analyze_mesh
\* reports FileNotFound, InvalidJson, MalformedMesh, UnrecognizedFormat or EmptyMesh,
\* and it exits 0 only when analyze_mesh returned True, after the bounding box was printed.
C4_ExitStatus ==
    m_pc = "exited" =>
        /\ Len(m_argv) # 2 =>
              /\ m_exit = 1 /\ m_out = <<"usage">>
              /\ m_ret = "None" /\ m_data = <<>> /\ m_error = "Usage"
        /\ (Len(m_argv) = 2 /\ m_error \in MeshErrors) => m_ret = "False" /\ m_exit = 1
        /\ m_ret = "False" => m_error \in MeshErrors
        /\ m_exit = 0 =>
              /\ Len(m_argv) = 2 /\ m_ret = "True"
              /\ "Bounding Box" \in Range(m_out) /\ m_stats # <<>>
        /\ m_exit \in {0, 1}

\* one argument, a mesh without vertices: status 1
C4_Witness ==
    /\ m_pc = "exited" /\ Len(m_argv) = 2
    /\ m_error = "EmptyMesh" /\ m_exit = 1

MeshHasStats == m_stats # <<>>
AxisValues(k) == {m_vertex_list[i][k] : i \in 1..Len(m_vertex_list)}
IsLeast(x, S) == x \in S /\ \A y \in S : x <= y
IsGreatest(x, S) == x \in S /\ \A y \in S : x >= y
\* the rational c is n / 2
IsHalfOf(c, n) == c.den > 0 /\ 2 * c.num = n * c.den

\* C5: for every non-empty vertex list and on each axis separately, min is the least
\* and max the greatest coordinate, size = max - min and center = (min + max) / 2;
\* the max dimension is the greatest of the three sizes.
C5_Statistics ==
    MeshHasStats =>
        /\ m_vertex_list # <<>>
        /\ IsLeast(m_stats.min_x, AxisValues(1)) /\ IsGreatest(m_stats.max_x, AxisValues(1))
        /\ IsLeast(m_stats.min_y, AxisValues(2)) /\ IsGreatest(m_stats.max_y, AxisValues(2))
        /\ IsLeast(m_stats.min_z, AxisValues(3)) /\ IsGreatest(m_stats.max_z, AxisValues(3))
        /\ m_stats.size_x = m_stats.max_x - m_stats.min_x
        /\ m_stats.size_y = m_stats.max_y - m_stats.min_y
        /\ m_stats.size_z = m_stats.max_z - m_stats.min_z
        /\ IsHalfOf(m_stats.center_x, m_stats.min_x + m_stats.max_x)
        /\ IsHalfOf(m_stats.center_y, m_stats.min_y + m_stats.max_y)
        /\ IsHalfOf(m_stats.center_z, m_stats.min_z + m_stats.max_z)
        /\ IsGreatest(m_stats.max_dim, {m_stats.size_x, m_stats.size_y, m_stats.size_z})

\* several vertices, three different extents, a center that is not a whole number
C5_Witness ==
    /\ MeshHasStats /\ Len(m_vertex_list) >= 2
    /\ Cardinality({m_stats.size_x, m_stats.size_y, m_stats.size_z}) = 3
    /\ m_stats.center_x.den = 2
    /\ m_stats.min_y < 0

Injections(n) == {p \in [1..n -> 1..n] : \A i, j \in 1..n : p[i] = p[j] => i = j}
Swap(n, a, b) == [i \in 1..n |-> IF i = a THEN b ELSE IF i = b THEN a ELSE i]
\* every permutation of up to four positions; beyond that every exchange of two
\* positions (the input lists of the model are closed under these, and they generate
\* all permutations)
Rearrangements(n) ==
    IF n <= 4 THEN Injections(n) ELSE {Swap(n, a, b) : a \in 1..n, b \in 1..n}

\* C6: two non-empty vertex lists that are permutations of each other yield the same
\* min, max, size, center per axis and the same max dimension.
C6_PermutationInvariant ==
    MeshHasStats =>
        \A p \in Rearrangements(Len(m_vertex_list)) :
            MeshStats([i \in 1..Len(m_vertex_list) |-> m_vertex_list[p[i]]]) = m_stats

\* three pairwise different vertices
C6_Witness ==
    /\ MeshHasStats /\ Len(m_vertex_list) >= 3
    /\ Cardinality({m_vertex_list[1], m_vertex_list[2], m_vertex_list[3]}) = 3
    /\ m_stats.min_x # m_vertex_list[1][1] /\ m_stats.min_x # m_vertex_list[Len(m_vertex_list)][1]

\* the numbers written on the geometry lines of the model's OBJ files
LineNumbers(line) ==
    CASE line = LineVA -> <<0, 1, 0>>
      [] line = LineVB -> <<-1, 2, 10>>
      [] line = LineFA -> <<1, 2, 3>>
      [] line = LineFB -> <<2, 1, 12>>
IsVLine(line) == line \in {LineVA, LineVB}
IsFLine(line) == line \in {LineFA, LineFB}
\* the 'v' lines, resp. the 'f' lines, in file order
ExpectedVertexList(lines) ==
    LET vs == SelectSeq(lines, IsVLine) IN [k \in 1..Len(vs) |-> LineNumbers(vs[k])]
ExpectedFaces(lines) ==
    LET fl == SelectSeq(lines, IsFLine) IN [k \in 1..Len(fl) |-> LineNumbers(fl[k])]

ConvRecordBuilt == c_pc \in {"write", "returned", "exited"} /\ c_error = ""
MeshReadConverted ==
    /\ c_pc = "exited" /\ c_exit = 0
    /\ Len(m_argv) = 2 /\ m_argv[2] = JsonPath
    /\ m_pc \in {"check", "bounds", "meta", "returned", "exited"}

\* C7: for every OBJ text of 'v x y z' and 'f i j k' lines, in any interleaving and
\* with other lines ignored, the emitted record passes the compact reader's
\* divisibility validation, the triples grouped from its 'vertices' are the 'v' lines
\* in file order, and its 'indices' are, face by face in file order, the three
\* integers of each 'f' line minus 1.
C7_ObjRoundTrip ==
    /\ ConvRecordBuilt =>
          LET vertices == c_json_data["vertices"]
              indices == c_json_data["indices"]
              vs == ExpectedVertexList(c_lines)
              fl == ExpectedFaces(c_lines)
          IN /\ Len(vertices) = 3 * Len(vs) /\ Len(indices) = 3 * Len(fl)
             /\ \A k \in 1..Len(vs) : \A j \in 1..3 : vertices[3 * (k - 1) + j] = vs[k][j]
             /\ \A k \in 1..Len(fl) : \A j \in 1..3 : indices[3 * (k - 1) + j] = fl[k][j] - 1
    /\ MeshReadConverted =>
          /\ "Format: Compact" \in Range(m_out)
          /\ m_error \notin {"MalformedMesh", "UnrecognizedFormat", "InvalidJson", "FileNotFound"}
          /\ m_vertex_list = ExpectedVertexList(c_lines)

\* a face line before two different vertex lines, converted and read back
C7_Witness ==
    /\ MeshReadConverted /\ m_pc = "exited" /\ m_exit = 0
    /\ c_lines = <<LineFB, LineVB, LineVA>>
    /\ m_vertex_list = <<<<-1, 2, 10>>, <<0, 1, 0>>>>

VertexWarning == "WARNING: Vertex count mismatch!"
FaceWarning == "WARNING: Face count mismatch!"
\* the count a header among the first 10 lines declares, 0 without one
DeclaredVertexCount(lines) ==
    IF \E i \in 1..Len(lines) : i <= 10 /\ lines[i] = LineVertexCount THEN 2 ELSE 0
DeclaredFaceCount(lines) ==
    IF \E i \in 1..Len(lines) : i <= 10 /\ lines[i] = LineFaceCount THEN 1 ELSE 0
LinesParse(lines) == \A i \in 1..Len(lines) : lines[i] \notin {LineShortV, LineSlashF, LineBadCount}
Position(out, entry) == CHOOSE i \in 1..Len(out) : out[i] = entry

\* C8: a vertex (face) mismatch warning is printed exactly when the parsed vertex
\* (face) count differs from the count declared by a header in the first 10 lines,
\* 0 without one; and every run whose OBJ lines parse, warned or not, then writes
\* the JSON file and completes.
C8_WarningsNotFatal ==
    /\ ConvRecordBuilt =>
          /\ VertexWarning \in Range(c_out)
                <=> Len(ExpectedVertexList(c_lines)) # DeclaredVertexCount(c_lines)
          /\ FaceWarning \in Range(c_out)
                <=> Len(ExpectedFaces(c_lines)) # DeclaredFaceCount(c_lines)
    /\ (c_pc \in {"verify", "write", "returned"}) => c_error = ""
    /\ (c_pc = "exited" /\ fs[ObjPath].kind = "text" /\ LinesParse(fs[ObjPath].lines)) =>
          /\ c_error = "" /\ c_exit = 0
          /\ fs[JsonPath] = JsonFile(JsonData(c_vertex_count, c_face_count, c_vertices, c_indices))
          /\ c_out[Len(c_out)] = "Converted"
          /\ \A w \in {VertexWarning, FaceWarning} \cap Range(c_out) :
                Position(c_out, w) < Len(c_out)

\* a vertex-count header on line 11 is not seen: warning printed, file still written
C8_Witness ==
    /\ c_pc = "exited" /\ c_exit = 0
    /\ Len(c_lines) > 10 /\ c_lines[11] = LineVertexCount
    /\ Len(ExpectedVertexList(c_lines)) = 2
    /\ VertexWarning \in Range(c_out) /\ FaceWarning \notin Range(c_out)
    /\ fs[JsonPath].kind = "json"

VertexKeys == <<"v0", "v1", "v2">>
ExampleTriangles == <<[v0 |-> <<0, 0, 0>>, v1 |-> <<1, 0, 0>>, v2 |-> <<0, 1, 0>>]>>
Whole(n) == [num |-> n, den |-> 1]

\* C9: the legacy reader emits, for each triangle in input order, v0, v1, v2 without
\* deduplication: 3 entries per triangle, entry 3k+j being vj of triangle k; the
\* single triangle (0,0,0), (1,0,0), (0,1,0) gives min (0,0,0), max (1,1,0),
\* center (0.5,0.5,0) and max dimension 1.
C9_LegacyFlatten ==
    (MeshDispatched /\ ViaLegacy /\ m_error # "KeyError") =>
        LET triangles == m_data["triangles"]
        IN /\ Len(m_vertex_list) = 3 * Len(triangles)
           /\ \A k \in 0..(Len(triangles) - 1) : \A j \in 0..2 :
                 m_vertex_list[3 * k + j + 1] =
                    <<triangles[k + 1][VertexKeys[j + 1]][1],
                      triangles[k + 1][VertexKeys[j + 1]][2],
                      triangles[k + 1][VertexKeys[j + 1]][3]>>
           /\ (triangles = ExampleTriangles /\ m_pc \in {"meta", "returned", "exited"}) =>
                 /\ <<m_stats.min_x, m_stats.min_y, m_stats.min_z>> = <<0, 0, 0>>
                 /\ <<m_stats.max_x, m_stats.max_y, m_stats.max_z>> = <<1, 1, 0>>
                 /\ m_stats.center_x = [num |-> 1, den |-> 2]
                 /\ m_stats.center_y = [num |-> 1, den |-> 2]
                 /\ m_stats.center_z = Whole(0)
                 /\ m_stats.max_dim = 1

\* the example triangle, analysed to the end
C9_Witness ==
    /\ MeshDispatched /\ ViaLegacy
    /\ m_data["triangles"] = ExampleTriangles
    /\ m_pc = "exited" /\ m_exit = 0 /\ m_stats.max_dim = 1

\* both analyzers have run on the same compact mesh with whole, non-empty buffers
BothAnalyzedCompact ==
    /\ b_pc \in {"returned", "raised", "exited"}
    /\ m_pc \in {"returned", "exited"}
    /\ Len(m_argv) = 2 /\ m_argv[2] = JsonPath
    /\ fs[JsonPath].kind = "json"
    /\ "vertices" \in DOMAIN fs[JsonPath].value /\ "indices" \in DOMAIN fs[JsonPath].value
    /\ Len(fs[JsonPath].value["vertices"]) > 0
    /\ Len(fs[JsonPath].value["vertices"]) % 3 = 0
    /\ Len(fs[JsonPath].value["indices"]) % 3 = 0

\* C10: on every compact mesh whose 'vertices' is non-empty with a length divisible
\* by 3 (and whose 'indices' length is divisible by 3), analyze_bunny and
\* analyze_mesh compute the same min, max, size and center per axis and the same max
\* dimension, whatever 'indices' and the metadata keys hold.
C10_AnalyzersAgree ==
    BothAnalyzedCompact =>
        /\ b_error = "" /\ b_stats # <<>> /\ m_stats # <<>>
        /\ b_stats = m_stats

\* a mesh with metadata and two vertices that differ on every axis
C10_Witness ==
    /\ BothAnalyzedCompact /\ b_pc = "exited" /\ m_pc = "exited"
    /\ Len(m_vertex_list) = 2 /\ m_stats.size_z > 0 /\ m_stats.size_y > m_stats.size_z
    /\ fs[JsonPath].value["indices"] # <<>>

====
